---- MODULE Spec2Model ----
(***************************************************************************)
(* Effective-address resolution of the M68K core in src/main.rs: the       *)
(* register file, the micro-instruction interpreter M68K::exec, the        *)
(* pending micro-instruction queue and the lowering M68K::load_effaddr.    *)
(*                                                                         *)
(* A u32 is carried as <<hi, lo>>, its two 16-bit halves, so that the      *)
(* arithmetic keeps its 32-bit width inside TLC's integer range.  An i32   *)
(* is carried as its integer value and an i16 as its 16-bit                *)
(* two's-complement pattern.                                               *)
(*                                                                         *)
(* The source has exec, which applies one micro-op, but no loop that       *)
(* drains the queue: Step and Resume follow the executor state machine of  *)
(* the specification (pop and apply the front micro-op; on a MemRequest    *)
(* wait for the resume that deposits the fetched value in IOBuffer).       *)
(*                                                                         *)
(* Rust's `+` on u32 panics on overflow in a build with overflow checks    *)
(* (the default of debug builds) and wraps in a build without them;        *)
(* overflow_checks, fixed in the initial state, is the build's choice.     *)
(*                                                                         *)
(* Spec feeds the machine descriptors of every addressing mode; DirectSpec *)
(* feeds it the register-direct descriptors of every register number and   *)
(* one of a register that does not exist; DecodeSpec applies decode to an  *)
(* opcode; LiveSpec is Spec with an executor that keeps going.             *)
(***************************************************************************)
EXTENDS Integers, Sequences, FiniteSets, TLC

VARIABLES
    data_r,           \* M68K.data_r  : [u32; 8]
    addr_r,           \* M68K.addr_r  : [u32; 8]
    pc,               \* M68K.pc      : u32
    ccr,              \* M68K.ccr     : u8
    intern_r,         \* M68K.intern_r: [u32; NB_INTERNAL_REGS + 3]
    instrs,           \* M68K.instrs  : VecDeque<MicroI>
    overflow_checks,  \* whether the build panics on `+` overflow (debug) or wraps (release)
    status,           \* executor: "Ready", "Suspended" (a MemRequest is out) or "Aborted" (panic)
    request,          \* the address carried by the last NextAction::MemRequest
    pending,          \* the descriptors lowered so far, in load order
    cur,              \* index in pending of the program being executed
    done,             \* number of micro-ops of pending[cur] applied so far
    start,            \* the register file when pending[cur] began to run
    reqs,             \* addresses of the fetch requests pending[cur] has issued
    resps,            \* values deposited in IOBuffer for those requests
    prev,             \* reqs and final In0 of the program run before pending[cur]
    opcode,           \* the u16 handed to decode
    decoded           \* what decode returned for it

regs == <<data_r, addr_r, pc, ccr, intern_r>>
obs  == <<pending, cur, done, start, reqs, resps, prev>>
dec  == <<opcode, decoded>>
vars == <<data_r, addr_r, pc, ccr, intern_r, instrs, overflow_checks,
          status, request, pending, cur, done, start, reqs, resps, prev,
          opcode, decoded>>

----------------------------------------------------------------------------
(* 32-bit arithmetic *)

Half == 65536
NB_INTERNAL_REGS == 8

\* u32 `+` when it does not overflow, and what a build without overflow
\* checks computes when it does
wrapping_add(x, y) ==
    LET lo == x[2] + y[2]
        hi == x[1] + y[1] + (lo \div Half)
    IN  <<hi % Half, lo % Half>>

\* u32 `+` carries out of bit 31: "attempt to add with overflow"
add_overflows(x, y) ==
    x[1] + y[1] + ((x[2] + y[2]) \div Half) >= Half

\* u32 `<<` by k < 32: the bits shifted out are dropped
shl(x, k) ==
    LET lo == x[2] * (2 ^ k)
        hi == x[1] * (2 ^ k) + (lo \div Half)
    IN  <<hi % Half, lo % Half>>

\* `x as u32` for x: i32 (two's complement reinterpretation)
i32_as_u32(n) ==
    IF n >= 0
    THEN <<n \div Half, n % Half>>
    ELSE LET m == -(n + 1)
         IN  <<(Half - 1) - (m \div Half), (Half - 1) - (m % Half)>>

\* `x as i32` for x: u32
u32_as_i32(x) ==
    IF x[1] < Half \div 2
    THEN x[1] * Half + x[2]
    ELSE (x[1] - Half) * Half + x[2]

\* `d as i32` for d: i16 (sign extension of the 16-bit pattern b)
i16_as_i32(b) == IF b >= Half \div 2 THEN b - Half ELSE b

----------------------------------------------------------------------------
(* enum Reg *)

D(n)         == [tag |-> "D", n |-> n]
A(n)         == [tag |-> "A", n |-> n]
PC           == [tag |-> "PC", n |-> 0]
CCR          == [tag |-> "CCR", n |-> 0]
InTmp(n)     == [tag |-> "InTmp", n |-> n]
In0          == [tag |-> "In0", n |-> 0]
In1          == [tag |-> "In1", n |-> 0]
IOBuffer     == [tag |-> "IOBuffer", n |-> 0]
Immediate(x) == [tag |-> "Immediate", n |-> x]

(* enum Size *)
Sizes == {"Byte", "Word", "Long"}

\* a slip: the byte count of the size for its shift amount
shift_by_value(s) == CASE s = "Byte" -> 1 [] s = "Word" -> 2 [] s = "Long" -> 4

shift(s) == CASE s = "Byte" -> 0 [] s = "Word" -> 1 [] s = "Long" -> 2

value(s) == CASE s = "Byte" -> 1 [] s = "Word" -> 2 [] s = "Long" -> 4

(* enum MicroI *)
Zero(r)        == [op |-> "Zero", r |-> r]
Set(r, x)      == [op |-> "Set", r |-> r, x |-> x]
Mov(dst, src)  == [op |-> "Mov", r |-> dst, x |-> src]
Add(r, x)      == [op |-> "Add", r |-> r, x |-> x]
Scale(r, s)    == [op |-> "Scale", r |-> r, s |-> s]
RequestMem(r)  == [op |-> "RequestMem", r |-> r]

(* enum NextAction *)
Next_          == [tag |-> "Next", addr |-> <<0, 0>>]
MemRequest(a)  == [tag |-> "MemRequest", addr |-> a]

----------------------------------------------------------------------------
(* The register file *)

Self == [data_r |-> data_r, addr_r |-> addr_r, pc |-> pc, ccr |-> ccr,
         intern_r |-> intern_r]

\* the array index of a reference is inside its bank (Rust checks it on
\* every indexing and panics otherwise)
index_ok(r) ==
    CASE r.tag \in {"D", "A"} -> r.n \in 0..7
      [] r.tag = "InTmp"      -> r.n \in 0..(NB_INTERNAL_REGS + 2)
      [] OTHER                -> TRUE

read_reg(self, r) ==
    CASE r.tag = "D"         -> self.data_r[r.n]
      [] r.tag = "A"         -> self.addr_r[r.n]
      [] r.tag = "PC"        -> self.pc
      [] r.tag = "CCR"       -> <<0, self.ccr>>
      [] r.tag = "InTmp"     -> self.intern_r[r.n]
      [] r.tag = "In0"       -> self.intern_r[NB_INTERNAL_REGS]
      [] r.tag = "In1"       -> self.intern_r[NB_INTERNAL_REGS + 1]
      [] r.tag = "IOBuffer"  -> self.intern_r[NB_INTERNAL_REGS + 2]
      [] r.tag = "Immediate" -> i32_as_u32(r.n)

\* the Reg::Immediate arm is unreachable!(): see write_panics
write_reg(self, r, x) ==
    CASE r.tag = "D"         -> [self EXCEPT !.data_r[r.n] = x]
      [] r.tag = "A"         -> [self EXCEPT !.addr_r[r.n] = x]
      [] r.tag = "PC"        -> [self EXCEPT !.pc = x]
      [] r.tag = "CCR"       -> [self EXCEPT !.ccr = x[2] % 256]
      [] r.tag = "InTmp"     -> [self EXCEPT !.intern_r[r.n] = x]
      [] r.tag = "In0"       -> [self EXCEPT !.intern_r[NB_INTERNAL_REGS] = x]
      [] r.tag = "In1"       -> [self EXCEPT !.intern_r[NB_INTERNAL_REGS + 1] = x]
      [] r.tag = "IOBuffer"  -> [self EXCEPT !.intern_r[NB_INTERNAL_REGS + 2] = x]

read_panics(r)  == ~index_ok(r)
write_panics(r) == r.tag = "Immediate" \/ ~index_ok(r)

----------------------------------------------------------------------------
(* M68K::exec *)

\* the micro-op panics instead of returning: an index out of its bank, a
\* write through an immediate, or `+` overflowing under overflow checks
exec_panics(self, checks, m) ==
    CASE m.op \in {"Zero", "Set"} -> write_panics(m.r)
      [] m.op = "Mov"   -> read_panics(m.x) \/ write_panics(m.r)
      [] m.op = "Add"   ->
            \/ read_panics(m.r) \/ read_panics(m.x)
            \/ (checks /\ add_overflows(read_reg(self, m.r), read_reg(self, m.x)))
            \/ write_panics(m.r)
      [] m.op = "Scale" -> read_panics(m.r) \/ write_panics(m.r)
      [] m.op = "RequestMem" -> read_panics(m.r)

\* the register file after the micro-op
exec_regs(self, m) ==
    CASE m.op = "Zero"  -> write_reg(self, m.r, <<0, 0>>)
      [] m.op = "Set"   -> write_reg(self, m.r, m.x)
      [] m.op = "Mov"   -> write_reg(self, m.r, read_reg(self, m.x))
      [] m.op = "Add"   ->
            write_reg(self, m.r,
                      wrapping_add(read_reg(self, m.r), read_reg(self, m.x)))
      [] m.op = "Scale" ->
            write_reg(self, m.r, shl(read_reg(self, m.r), shift(m.s)))
      [] m.op = "RequestMem" -> self

\* the NextAction the micro-op returns
exec_next(self, m) ==
    IF m.op = "RequestMem" THEN MemRequest(read_reg(self, m.r)) ELSE Next_

----------------------------------------------------------------------------
(* M68K::add_instr and M68K::load_effaddr *)

add_instr(q, mi) == Append(q, mi)

RECURSIVE add_instrs(_, _)
add_instrs(q, ms) ==
    IF ms = <<>> THEN q ELSE add_instrs(add_instr(q, Head(ms)), Tail(ms))

\* one operator per match arm of load_effaddr: the micro-ops the arm
\* pushes for the descriptor, in push order

\* a slip of load_DataReg: the address bank for the data bank
load_DataReg_from_addr(ea) == <<Mov(In0, A(ea.r))>>

load_DataReg(ea) == <<Mov(In0, D(ea.r))>>

load_AddrReg(ea) == <<Mov(In0, A(ea.r))>>

load_Addr(ea) == <<RequestMem(A(ea.r)), Mov(In0, IOBuffer)>>

\* a slip: the copy out of IOBuffer pushed after the increment
load_PostInc_copy_last(ea) ==
    <<RequestMem(A(ea.r)), Add(A(ea.r), Immediate(value(ea.s))),
      Mov(In0, IOBuffer)>>

load_PostInc(ea) ==
    <<RequestMem(A(ea.r)), Mov(In0, IOBuffer),
      Add(A(ea.r), Immediate(value(ea.s)))>>

load_PreDec(ea) ==
    <<Add(A(ea.r), Immediate(-value(ea.s))),
      RequestMem(A(ea.r)), Mov(In0, IOBuffer)>>

\* a slip: the displacement added to the address register itself
load_AddrDisp_in_place(ea) ==
    <<Add(A(ea.r), Immediate(i16_as_i32(ea.d))),
      RequestMem(A(ea.r)), Mov(In0, IOBuffer)>>

\* a slip: the base added to whatever In0 holds instead of moved into it
load_AddrDisp_accumulates(ea) ==
    <<Add(In0, A(ea.r)), Add(In0, Immediate(i16_as_i32(ea.d))),
      RequestMem(In0), Mov(In0, IOBuffer)>>

load_AddrDisp(ea) ==
    <<Mov(In0, A(ea.r)), Add(In0, Immediate(i16_as_i32(ea.d))),
      RequestMem(In0), Mov(In0, IOBuffer)>>

\* a slip: the index operand scaled in place instead of through In1
load_AddrIdx_scales_operand(ea) ==
    <<Mov(In0, A(ea.r)), Add(In0, Immediate(ea.d)),
      Scale(ea.idx, ea.s), Mov(In1, ea.idx), Add(In0, In1),
      RequestMem(In0), Mov(In0, IOBuffer)>>

load_AddrIdx(ea) ==
    <<Mov(In0, A(ea.r)), Add(In0, Immediate(ea.d)),
      Mov(In1, ea.idx), Scale(In1, ea.s), Add(In0, In1),
      RequestMem(In0), Mov(In0, IOBuffer)>>

load_AddrIndPostIdx(ea) ==
    <<Mov(In0, A(ea.r)), Add(In0, Immediate(ea.d)),
      RequestMem(In0), Mov(In0, IOBuffer),
      Mov(In1, ea.idx), Scale(In1, ea.s), Add(In0, In1),
      Add(In0, Immediate(ea.od)),
      RequestMem(In0), Mov(In0, IOBuffer)>>

\* a slip: the scaled index added after the first fetch, as in post-indexed
load_AddrIndPreIdx_index_late(ea) ==
    <<Mov(In0, A(ea.r)), Add(In0, Immediate(ea.d)),
      RequestMem(In0), Mov(In0, IOBuffer),
      Mov(In1, ea.idx), Scale(In1, ea.s), Add(In0, In1),
      Add(In0, Immediate(ea.od)),
      RequestMem(In0), Mov(In0, IOBuffer)>>

load_AddrIndPreIdx(ea) ==
    <<Mov(In0, A(ea.r)), Add(In0, Immediate(ea.d)),
      Mov(In1, ea.idx), Scale(In1, ea.s), Add(In0, In1),
      RequestMem(In0), Mov(In0, IOBuffer),
      Add(In0, Immediate(ea.od)),
      RequestMem(In0), Mov(In0, IOBuffer)>>

\* a slip: the displacement added to PC itself
load_PCIndDisp_moves_pc(ea) ==
    <<Add(PC, Immediate(ea.d)), Mov(In0, PC),
      RequestMem(In0), Mov(In0, IOBuffer)>>

load_PCIndDisp(ea) ==
    <<Mov(In0, PC), Add(In0, Immediate(ea.d)),
      RequestMem(In0), Mov(In0, IOBuffer)>>

load_PCIndIdx(ea) ==
    <<Mov(In0, PC), Add(In0, Immediate(ea.d)),
      Mov(In1, ea.idx), Scale(In1, ea.s), Add(In0, In1),
      RequestMem(In0), Mov(In0, IOBuffer)>>

load_PCIndPostIdx(ea) ==
    <<Mov(In0, PC), Add(In0, Immediate(ea.d)),
      RequestMem(In0), Mov(In0, IOBuffer),
      Mov(In1, ea.idx), Scale(In1, ea.s), Add(In0, In1),
      Add(In0, Immediate(ea.od)),
      RequestMem(In0), Mov(In0, IOBuffer)>>

load_PCIndPreIdx(ea) ==
    <<Mov(In0, PC), Add(In0, Immediate(ea.d)),
      Mov(In1, ea.idx), Scale(In1, ea.s), Add(In0, In1),
      RequestMem(In0), Mov(In0, IOBuffer),
      Add(In0, Immediate(ea.od)),
      RequestMem(In0), Mov(In0, IOBuffer)>>

load_AbsShort(ea) ==
    <<RequestMem(Immediate(i16_as_i32(ea.addr))), Mov(In0, IOBuffer)>>

\* (hi as u32) << 16 | (lo as u32) is the word <<hi, lo>>
load_AbsLong(ea) ==
    <<RequestMem(Immediate(u32_as_i32(<<ea.hi, ea.lo>>))), Mov(In0, IOBuffer)>>

load_Immediate(ea) ==
    <<RequestMem(Immediate(u32_as_i32(ea.addr))), Mov(In0, IOBuffer)>>

\* the micro-ops load_effaddr pushes for a descriptor
lowered(ea) ==
    CASE ea.mode = "DataReg"        -> load_DataReg(ea)
      [] ea.mode = "AddrReg"        -> load_AddrReg(ea)
      [] ea.mode = "Addr"           -> load_Addr(ea)
      [] ea.mode = "PostInc"        -> load_PostInc(ea)
      [] ea.mode = "PreDec"         -> load_PreDec(ea)
      [] ea.mode = "AddrDisp"       -> load_AddrDisp(ea)
      [] ea.mode = "AddrIdx"        -> load_AddrIdx(ea)
      [] ea.mode = "AddrIndPostIdx" -> load_AddrIndPostIdx(ea)
      [] ea.mode = "AddrIndPreIdx"  -> load_AddrIndPreIdx(ea)
      [] ea.mode = "PCIndDisp"      -> load_PCIndDisp(ea)
      [] ea.mode = "PCIndIdx"       -> load_PCIndIdx(ea)
      [] ea.mode = "PCIndPostIdx"   -> load_PCIndPostIdx(ea)
      [] ea.mode = "PCIndPreIdx"    -> load_PCIndPreIdx(ea)
      [] ea.mode = "AbsShort"       -> load_AbsShort(ea)
      [] ea.mode = "AbsLong"        -> load_AbsLong(ea)
      [] ea.mode = "Immediate"      -> load_Immediate(ea)

----------------------------------------------------------------------------
(* AddrMode and decode *)

\* the variants of AddrMode in declaration order: variant k has discriminant
\* k - 1
AddrModeNames ==
    <<"DataReg", "AddrReg", "Addr", "AddrPostInc", "AddrPreDec", "AddrDisp",
      "AddrIdx", "PCDisp", "PCIdx", "AbsShort", "AbsLong", "Imm">>

AddrMode(k) == [tag |-> "AddrMode", disc |-> k]

\* AddrMode::from(x): transmute of the byte.  A byte that is no variant's
\* discriminant is undefined behaviour: the build may carry the byte on as
\* an AddrMode that is no variant, or act as if it were any variant
AddrMode_from(x) ==
    IF x < Len(AddrModeNames)
    THEN {AddrMode(x)}
    ELSE {AddrMode(x)} \cup {AddrMode(k) : k \in 0..(Len(AddrModeNames) - 1)}

\* decode(opcode) = AddrMode::from((opcode & 0b11_1111) as u8)
decode(op) == AddrMode_from(op % 64)

NotDecoded == [tag |-> "None"]

----------------------------------------------------------------------------
(* Inputs *)

MaxOpcode == 79     \* opcodes 0..MaxOpcode, and the largest u16
Opcodes == 0..MaxOpcode \cup {Half - 1}

MaxLoads == 2       \* descriptors lowered in one behaviour
MaxQueue == 10      \* micro-ops queued at once

Bank(s) == [n \in 0..7 |-> s[n + 1]]

\* A1 = 0x4000, A2 = 0x2000, A5 = 0x3000
AddrTypical == Bank(<< <<0, 4096>>, <<0, 16384>>, <<0, 8192>>, <<0, 24576>>,
                       <<0, 28672>>, <<0, 12288>>, <<0, 32768>>, <<0, 36864>> >>)
AddrHigh    == [n \in 0..7 |-> <<Half - 1, Half - 1 - n>>]   \* 0xFFFFFFFF - n
AddrLow     == [n \in 0..7 |-> IF n \in {2, 5} THEN <<0, 0>> ELSE <<0, n>>]

\* D3 = 0x1234
DataTypical == [n \in 0..7 |-> IF n = 3 THEN <<0, 4660>> ELSE <<0, 256 * n>>]
DataSmall   == [n \in 0..7 |-> <<0, n>>]                     \* D3 = 3
DataTop     == [n \in 0..7 |-> <<Half \div 2, 0>>]           \* 0x80000000

\* the register files a behaviour may start from
RegFiles ==
    { [data_r |-> DataTypical, addr_r |-> AddrTypical, pc |-> <<0, 1024>>],
      [data_r |-> DataSmall,   addr_r |-> AddrHigh,    pc |-> <<0, 4>>],
      [data_r |-> DataTop,     addr_r |-> AddrLow,     pc |-> <<Half - 1, Half - 4>>] }

MemVals == {<<0, 20480>>, <<Half - 1, Half - 16>>}           \* 0x5000, 0xFFFFFFF0

DataRegNums == {3}
AddrRegNums == {2}         \* register direct and indirect
DirectRegNums == 0..7      \* register direct, every register of a bank
IncRegNums  == {2}         \* post-increment
IncSizes    == {"Word", "Long"}
DecRegNums  == {5}         \* pre-decrement
DecSizes    == {"Byte", "Long"}
DispRegNums == {1}         \* address + displacement
BaseRegNums == {2}         \* indexed and memory-indirect
Disp16      == {8, Half - 8}        \* +8, -8 as i16 patterns
Disp32      == {8, -8}
OuterDisp   == {4, -4}
IdxOperands == {D(3), A(2)}
PcIdxOperands == {D(3)}
IdxSizes    == {"Byte", "Long"}     \* address register with index
PcIdxSizes  == {"Word"}             \* PC with index
BadRegNums  == {8}         \* a u8 register number with no register behind it

\* descriptors whose index operand is an immediate
ImmIdxEffAddrs ==
    [mode : {"AddrIdx"}, r : BaseRegNums, idx : {Immediate(3)},
     d : {8}, s : {"Word"}]
    \cup [mode : {"AddrIndPostIdx", "AddrIndPreIdx"}, r : BaseRegNums,
          d : {8}, idx : {Immediate(3)}, s : {"Word"}, od : {4}]
    \cup [mode : {"PCIndIdx"}, d : {8}, idx : {Immediate(3)}, s : {"Word"}]
    \cup [mode : {"PCIndPostIdx", "PCIndPreIdx"}, d : {8},
          idx : {Immediate(3)}, s : {"Word"}, od : {4}]

\* the register-direct descriptors of every register, an indirect one, and
\* one of a register that does not exist
DirectEffAddrs ==
    [mode : {"DataReg", "AddrReg"}, r : DirectRegNums]
    \cup [mode : {"Addr"}, r : AddrRegNums]
    \cup [mode : {"DataReg"}, r : BadRegNums]

EffAddrs ==
    [mode : {"DataReg"}, r : DataRegNums]
    \cup [mode : {"AddrReg", "Addr"}, r : AddrRegNums]
    \cup [mode : {"PostInc"}, r : IncRegNums, s : IncSizes]
    \cup [mode : {"PreDec"}, r : DecRegNums, s : DecSizes]
    \cup [mode : {"AddrDisp"}, r : DispRegNums, d : Disp16]
    \cup [mode : {"AddrIdx"}, r : BaseRegNums, idx : IdxOperands,
          d : Disp32, s : IdxSizes]
    \cup [mode : {"AddrIndPostIdx", "AddrIndPreIdx"}, r : BaseRegNums,
          d : Disp32, idx : IdxOperands, s : Sizes, od : OuterDisp]
    \cup [mode : {"PCIndDisp"}, d : Disp32]
    \cup [mode : {"PCIndIdx"}, d : Disp32, idx : PcIdxOperands, s : PcIdxSizes]
    \cup [mode : {"PCIndPostIdx", "PCIndPreIdx"}, d : Disp32,
          idx : PcIdxOperands, s : Sizes, od : OuterDisp]
    \cup [mode : {"AbsShort"}, addr : {Half - 8}]
    \cup [mode : {"AbsLong"}, hi : {Half - 1}, lo : {16}]
    \cup [mode : {"Immediate"}, addr : {<<Half \div 2, 32>>}]
    \cup ImmIdxEffAddrs

----------------------------------------------------------------------------
(* The machine *)

Init ==
    /\ \E f \in RegFiles :
          /\ data_r = f.data_r
          /\ addr_r = f.addr_r
          /\ pc = f.pc
    /\ ccr = 0
    /\ intern_r = [n \in 0..(NB_INTERNAL_REGS + 2) |-> <<0, 0>>]
    /\ instrs = <<>>
    /\ overflow_checks \in BOOLEAN
    /\ status = "Ready"
    /\ request = <<0, 0>>
    /\ pending = <<>>
    /\ cur = 1
    /\ done = 0
    /\ start = [data_r |-> data_r, addr_r |-> addr_r, pc |-> pc, ccr |-> ccr,
                intern_r |-> intern_r]
    /\ reqs = <<>>
    /\ resps = <<>>
    /\ prev = [reqs |-> <<>>, in0 |-> <<0, 0>>]
    /\ opcode = 0
    /\ decoded = NotDecoded

\* load_effaddr(ea): the caller lowers its descriptors before it starts to
\* drain the queue (the lowering reads no register, so the queue it builds
\* does not depend on when it is called)
LoadEffAddr(ea) ==
    /\ status = "Ready"
    /\ done = 0 /\ cur = 1
    /\ Len(pending) < MaxLoads
    /\ Len(instrs) + Len(lowered(ea)) <= MaxQueue
    /\ instrs' = add_instrs(instrs, lowered(ea))
    /\ pending' = Append(pending, ea)
    /\ UNCHANGED <<regs, overflow_checks, status, request,
                   cur, done, start, reqs, resps, prev, dec>>

\* the executor pops the front micro-op and applies exec to it
Step ==
    /\ status = "Ready"
    /\ instrs # <<>>
    /\ LET m     == Head(instrs)
           c     == IF done = Len(lowered(pending[cur])) THEN cur + 1 ELSE cur
           d     == IF done = Len(lowered(pending[cur])) THEN 0 ELSE done
           fresh == d = 0
           rq    == IF fresh THEN <<>> ELSE reqs
       IN  /\ instrs' = Tail(instrs)
           /\ cur' = c
           /\ start' = IF fresh THEN Self ELSE start
           /\ resps' = IF fresh THEN <<>> ELSE resps
           /\ prev' = IF c # cur
                      THEN [reqs |-> reqs, in0 |-> intern_r[NB_INTERNAL_REGS]]
                      ELSE prev
           /\ IF exec_panics(Self, overflow_checks, m)
              THEN /\ status' = "Aborted"
                   /\ done' = d
                   /\ reqs' = rq
                   /\ UNCHANGED <<regs, request>>
              ELSE LET after == exec_regs(Self, m)
                       next  == exec_next(Self, m)
                   IN  /\ data_r' = after.data_r
                       /\ addr_r' = after.addr_r
                       /\ pc' = after.pc
                       /\ ccr' = after.ccr
                       /\ intern_r' = after.intern_r
                       /\ done' = d + 1
                       /\ IF next.tag = "MemRequest"
                          THEN /\ status' = "Suspended"
                               /\ request' = next.addr
                               /\ reqs' = Append(rq, next.addr)
                          ELSE /\ status' = "Ready"
                               /\ reqs' = rq
                               /\ UNCHANGED request
    /\ UNCHANGED <<overflow_checks, pending, dec>>

\* the memory subsystem deposits the fetched value in IOBuffer and resumes
Resume(v) ==
    /\ status = "Suspended"
    /\ intern_r' = [intern_r EXCEPT ![NB_INTERNAL_REGS + 2] = v]
    /\ status' = "Ready"
    /\ resps' = Append(resps, v)
    /\ UNCHANGED <<data_r, addr_r, pc, ccr, instrs, overflow_checks, request,
                   pending, cur, done, start, reqs, prev, dec>>

Next ==
    \/ \E ea \in EffAddrs : LoadEffAddr(ea)
    \/ Step
    \/ \E v \in MemVals : Resume(v)

Spec == Init /\ [][Next]_vars

\* the executor keeps popping while it can and every fetch request is
\* answered
LiveSpec ==
    /\ Spec
    /\ WF_vars(Step)
    /\ WF_vars(\E v \in MemVals : Resume(v))

\* the machine fed register-direct descriptors of every register
DirectNext ==
    \/ \E ea \in DirectEffAddrs : LoadEffAddr(ea)
    \/ Step
    \/ \E v \in MemVals : Resume(v)

DirectSpec == Init /\ [][DirectNext]_vars

----------------------------------------------------------------------------
(* decode applied to one opcode, the machine idle *)

DecodeInit ==
    /\ data_r = DataTypical
    /\ addr_r = AddrTypical
    /\ pc = <<0, 1024>>
    /\ ccr = 0
    /\ intern_r = [n \in 0..(NB_INTERNAL_REGS + 2) |-> <<0, 0>>]
    /\ instrs = <<>>
    /\ overflow_checks = FALSE
    /\ status = "Ready"
    /\ request = <<0, 0>>
    /\ pending = <<>>
    /\ cur = 1
    /\ done = 0
    /\ start = [data_r |-> data_r, addr_r |-> addr_r, pc |-> pc, ccr |-> ccr,
                intern_r |-> intern_r]
    /\ reqs = <<>>
    /\ resps = <<>>
    /\ prev = [reqs |-> <<>>, in0 |-> <<0, 0>>]
    /\ opcode \in Opcodes
    /\ decoded = NotDecoded

Decode ==
    /\ decoded = NotDecoded
    /\ decoded' \in decode(opcode)
    /\ UNCHANGED <<regs, instrs, overflow_checks, status, request, obs, opcode>>

DecodeNext == Decode

DecodeSpec == DecodeInit /\ [][DecodeNext]_vars

----------------------------------------------------------------------------
(* The executor run as a function: the micro-ops of prog applied in order to
   the register file self until the first fetch request is returned *)

RECURSIVE run_to_request(_, _, _)
run_to_request(self, checks, prog) ==
    IF prog = <<>> THEN [issued |-> FALSE, addr |-> <<0, 0>>]
    ELSE IF exec_panics(self, checks, Head(prog))
         THEN [issued |-> FALSE, addr |-> <<0, 0>>]
    ELSE IF exec_next(self, Head(prog)).tag = "MemRequest"
         THEN [issued |-> TRUE, addr |-> exec_next(self, Head(prog)).addr]
    ELSE run_to_request(exec_regs(self, Head(prog)), checks, Tail(prog))

(* The executor run as a function: the micro-ops of prog applied in order to
   the register file self, the k-th fetch request answered with vals[k]; the
   run stops at the end of prog, at a panic, or at a request that vals has no
   answer for.  out collects the addresses requested. *)
RECURSIVE run(_, _, _, _, _)
run(self, checks, prog, vals, out) ==
    IF prog = <<>> THEN [regs |-> self, reqs |-> out, aborted |-> FALSE]
    ELSE IF exec_panics(self, checks, Head(prog))
         THEN [regs |-> self, reqs |-> out, aborted |-> TRUE]
    ELSE LET after == exec_regs(self, Head(prog))
             next  == exec_next(self, Head(prog))
         IN  IF next.tag # "MemRequest"
             THEN run(after, checks, Tail(prog), vals, out)
             ELSE IF vals = <<>>
                  THEN [regs |-> after, reqs |-> Append(out, next.addr),
                        aborted |-> FALSE]
             ELSE run([after EXCEPT !.intern_r[NB_INTERNAL_REGS + 2] = Head(vals)],
                      checks, Tail(prog), Tail(vals), Append(out, next.addr))

----------------------------------------------------------------------------
(* What the claims speak of *)

Loaded   == pending # <<>>
Ea       == pending[cur]
Finished == Loaded /\ done = Len(lowered(Ea))   \* the whole program has run
Aborted  == status = "Aborted"                  \* a micro-op panicked
Ended    == Finished \/ Aborted
InMode(modes) == Loaded /\ Ea.mode \in modes

\* the executor is popping and applying the front micro-op in this step
Applying == status = "Ready" /\ instrs # <<>> /\ instrs' = Tail(instrs)

In0Val == intern_r[NB_INTERNAL_REGS]

\* 2^32 - n as a word, for 0 < n <= 65536
Minus(n) == <<Half - 1, Half - n>>

\* a 16-bit pattern sign-extended to 32 bits
SignExtended(b) == <<IF b >= Half \div 2 THEN Half - 1 ELSE 0, b>>

IndirectPost == {"AddrIndPostIdx", "PCIndPostIdx"}
IndirectPre  == {"AddrIndPreIdx", "PCIndPreIdx"}

\* the base of a memory-indirect descriptor in register file st
BaseOf(ea, st) ==
    IF ea.mode \in {"AddrIndPostIdx", "AddrIndPreIdx"}
    THEN st.addr_r[ea.r] ELSE st.pc

\* (i << k) mod 2^32 for the descriptor's index operand and size
ScaledIndex(ea, st) == shl(read_reg(st, ea.idx), shift(ea.s))

----------------------------------------------------------------------------
(* C1: RequestMem is the only micro-op that suspends: applying it exposes
   read(addr_ref) and nothing further is applied until the resume has put
   the fetched value in IOBuffer; every other micro-op completes and leaves
   the executor ready for the next one. *)
C1_OnlyRequestMemSuspends ==
    [][ /\ Applying =>
             IF Head(instrs).op = "RequestMem"
             THEN /\ status' = "Suspended"
                  /\ request' = read_reg(Self, Head(instrs).r)
             ELSE status' = "Ready"
        /\ status = "Suspended" =>
             /\ instrs' = instrs
             /\ UNCHANGED <<data_r, addr_r, pc, ccr>>
             /\ \A n \in 0..(NB_INTERNAL_REGS + 1) : intern_r'[n] = intern_r[n]
      ]_vars

(* C1, the part about suspension alone: a step that applies a micro-op
   suspends exactly when the micro-op is RequestMem. *)
C1_SuspendsExactlyAtRequestMem ==
    [][ Applying /\ status' # "Aborted" =>
            /\ (status' = "Suspended") = (Head(instrs).op = "RequestMem")
            /\ (status' = "Suspended" =>
                    request' = read_reg(Self, Head(instrs).r)) ]_vars

----------------------------------------------------------------------------
\* the body of C2, for the post-increment program being executed
PostIncHolds ==
    LET a == start.addr_r[Ea.r]
    IN  /\ Len(reqs) <= 1
        /\ \A i \in 1..Len(reqs) : reqs[i] = a
        /\ (done <= 2 => addr_r[Ea.r] = a)
        /\ (Ended => /\ reqs = <<a>>
                     /\ addr_r[Ea.r] = wrapping_add(a, <<0, value(Ea.s)>>))

(* C2: post-increment on A[r] with size s, from A[r] = a: the single fetch
   request carries a, A[r] is still a until the fetch and its copy to In0
   are done, and once the micro-program has run A[r] = (a + size) mod 2^32. *)
C2_PostInc == InMode({"PostInc"}) => PostIncHolds

(* C2 in a build without overflow checks. *)
C2_PostIncUnchecked == (~overflow_checks /\ InMode({"PostInc"})) => PostIncHolds

----------------------------------------------------------------------------
\* the body of C3, for the pre-decrement program being executed
PreDecHolds ==
    LET a    == start.addr_r[Ea.r]
        less == wrapping_add(a, Minus(value(Ea.s)))
    IN  /\ Len(reqs) <= 1
        /\ \A i \in 1..Len(reqs) : reqs[i] = less
        /\ (done >= 1 => addr_r[Ea.r] = less)
        /\ (Ended => /\ reqs = <<less>>
                     /\ addr_r[Ea.r] = less)

(* C3: pre-decrement on A[r] with size s, from A[r] = a: the decrement is
   applied before the fetch, the single fetch request carries
   (a - size) mod 2^32, and once the micro-program has run
   A[r] = (a - size) mod 2^32. *)
C3_PreDec == InMode({"PreDec"}) => PreDecHolds

(* C3 in a build without overflow checks. *)
C3_PreDecUnchecked == (~overflow_checks /\ InMode({"PreDec"})) => PreDecHolds

----------------------------------------------------------------------------
\* the body of C4, for the memory-indirect program being executed
TwoFetchesHold ==
    /\ Len(reqs) <= 2
    /\ (Ended => Len(reqs) = 2)

(* C4: executing a memory-indirect post- or pre-indexed program (address
   register or PC based) issues exactly two fetch requests, never one or
   three. *)
C4_TwoFetches == InMode(IndirectPost \cup IndirectPre) => TwoFetchesHold

(* C4 in a build without overflow checks. *)
C4_TwoFetchesUnchecked ==
    (~overflow_checks /\ InMode(IndirectPost \cup IndirectPre)) => TwoFetchesHold

----------------------------------------------------------------------------
\* the body of C5, for the memory-indirect program being executed
IndirectAddressesHold ==
    LET b     == BaseOf(Ea, start)
        d     == i32_as_u32(Ea.d)
        od    == i32_as_u32(Ea.od)
        ix    == ScaledIndex(Ea, start)
        first == IF Ea.mode \in IndirectPost
                 THEN wrapping_add(b, d)
                 ELSE wrapping_add(wrapping_add(b, d), ix)
    IN  /\ (Len(reqs) >= 1 => reqs[1] = first)
        /\ (Len(reqs) >= 2 =>
              reqs[2] = IF Ea.mode \in IndirectPost
                        THEN wrapping_add(wrapping_add(resps[1], ix), od)
                        ELSE wrapping_add(resps[1], od))
        /\ (Ended => /\ Len(reqs) = 2
                     /\ Len(resps) = 2
                     /\ In0Val = resps[2])

(* C5: post-indexed requests first at b + d, then at p + (i << k) + od;
   pre-indexed requests first at b + d + (i << k), then at p + od, p being
   the value deposited for the first request; In0 ends as the value
   deposited for the second request (all sums mod 2^32). *)
C5_IndirectAddresses ==
    InMode(IndirectPost \cup IndirectPre) => IndirectAddressesHold

(* C5 in a build without overflow checks. *)
C5_IndirectAddressesUnchecked ==
    (~overflow_checks /\ InMode(IndirectPost \cup IndirectPre))
        => IndirectAddressesHold

----------------------------------------------------------------------------
\* the post-indexed descriptor with the fields of a pre-indexed one
PostSibling(ea) ==
    [ea EXCEPT !.mode = IF ea.mode = "AddrIndPreIdx"
                        THEN "AddrIndPostIdx" ELSE "PCIndPostIdx"]

\* the first fetch request of the post-indexed sibling, run from the
\* register file the pre-indexed program started from
PostFirst == run_to_request(start, overflow_checks, lowered(PostSibling(Ea)))

\* a pre-indexed program has issued its first fetch request
PreFirstIssued == InMode(IndirectPre) /\ Len(reqs) >= 1

(* C6 as stated: for identical base, displacement and index inputs the
   first fetch address of the pre-indexed mode differs from the first fetch
   address of the post-indexed mode. *)
C6_FirstFetchDiffers ==
    PreFirstIssued => (PostFirst.issued /\ reqs[1] # PostFirst.addr)

(* C6 amended: the pre-indexed first fetch address is the post-indexed one
   plus (i << k) mod 2^32, so the two differ exactly when the scaled index
   is not 0 mod 2^32. *)
C6_FirstFetchOffsetByIndex ==
    PreFirstIssued =>
        /\ PostFirst.issued
        /\ reqs[1] = wrapping_add(PostFirst.addr, ScaledIndex(Ea, start))
        /\ (reqs[1] # PostFirst.addr) = (ScaledIndex(Ea, start) # <<0, 0>>)

\* a pre-indexed first fetch whose scaled index is not 0: the addresses differ
C6_Witness ==
    /\ PreFirstIssued
    /\ ScaledIndex(Ea, start) # <<0, 0>>
    /\ PostFirst.issued
    /\ reqs[1] # PostFirst.addr

----------------------------------------------------------------------------
(* C7: every RequestMem in the pending queue is immediately followed by
   Mov(In0, IOBuffer); none is last or followed by another micro-op. *)
C7_FetchThenCopy ==
    \A i \in 1..Len(instrs) :
        instrs[i].op = "RequestMem" =>
            /\ i < Len(instrs)
            /\ instrs[i + 1] = Mov(In0, IOBuffer)

\* two descriptors lowered one after the other, each with a fetch queued
C7_Witness ==
    /\ Len(pending) = 2
    /\ instrs = lowered(pending[1]) \o lowered(pending[2])
    /\ \E i \in 1..Len(lowered(pending[1])) : instrs[i].op = "RequestMem"
    /\ \E i \in (Len(lowered(pending[1])) + 1)..Len(instrs) :
            instrs[i].op = "RequestMem"

----------------------------------------------------------------------------
(* C8: applying Add(r, x) completes without a failure and leaves
   r = (read(r) + read(x)) mod 2^32, the right operand x not written. *)
C8_AddWraps ==
    [][ Applying /\ Head(instrs).op = "Add" =>
            LET m == Head(instrs)
            IN  /\ status' = "Ready"
                /\ read_reg(Self', m.r)
                       = wrapping_add(read_reg(Self, m.r), read_reg(Self, m.x))
                /\ (m.x # m.r => read_reg(Self', m.x) = read_reg(Self, m.x))
      ]_vars

(* C8 in a build without overflow checks. *)
C8_AddWrapsUnchecked ==
    [][ ~overflow_checks /\ Applying /\ Head(instrs).op = "Add" =>
            LET m == Head(instrs)
            IN  /\ status' = "Ready"
                /\ read_reg(Self', m.r)
                       = wrapping_add(read_reg(Self, m.r), read_reg(Self, m.x))
                /\ (m.x # m.r => read_reg(Self', m.x) = read_reg(Self, m.x))
      ]_vars

----------------------------------------------------------------------------
\* the body of C9, for the address + displacement program being executed
AddrDispHolds ==
    LET a      == start.addr_r[Ea.r]
        target == wrapping_add(a, SignExtended(Ea.d))
    IN  /\ Len(reqs) <= 1
        /\ \A i \in 1..Len(reqs) : reqs[i] = target
        /\ addr_r[Ea.r] = a
        /\ (Ended => reqs = <<target>>)

(* C9: address + displacement on A[r] = a with 16-bit displacement d: the
   single fetch request carries (a + sign-extended d) mod 2^32 and A[r] is
   still a after the micro-program has run. *)
C9_AddrDisp == InMode({"AddrDisp"}) => AddrDispHolds

(* C9 in a build without overflow checks. *)
C9_AddrDispUnchecked == (~overflow_checks /\ InMode({"AddrDisp"})) => AddrDispHolds

----------------------------------------------------------------------------
\* the body of C10, for the address + scaled index + displacement program
AddrIdxHolds ==
    LET b      == start.addr_r[Ea.r]
        i      == read_reg(start, Ea.idx)
        target == wrapping_add(wrapping_add(b, i32_as_u32(Ea.d)),
                               shl(i, shift(Ea.s)))
    IN  /\ Len(reqs) <= 1
        /\ \A n \in 1..Len(reqs) : reqs[n] = target
        /\ read_reg(Self, Ea.idx) = i
        /\ addr_r[Ea.r] = b
        /\ (Ended => reqs = <<target>>)

(* C10: address + scaled index + displacement with A[r] = b, index register
   holding i and shift k: the single fetch request carries
   (b + d + (i << k)) mod 2^32 and the index register still holds i, also
   when it is the base register. *)
C10_AddrIdx == InMode({"AddrIdx"}) => AddrIdxHolds

(* C10 in a build without overflow checks. *)
C10_AddrIdxUnchecked == (~overflow_checks /\ InMode({"AddrIdx"})) => AddrIdxHolds

----------------------------------------------------------------------------
\* the register a register-direct descriptor names, as the program found it
DirectValue ==
    IF Ea.mode = "DataReg" THEN start.data_r[Ea.r] ELSE start.addr_r[Ea.r]

(* C11: a register-direct descriptor (data or address register, number
   0..7, holding v) issues no memory request: its program runs without
   suspending or failing and ends with In0 = v. *)
C11_RegisterDirect ==
    InMode({"DataReg", "AddrReg"}) /\ Ea.r \in 0..7 =>
        /\ reqs = <<>>
        /\ status = "Ready"
        /\ (Finished => In0Val = DirectValue)

\* DataReg{r: 3} with D3 = 0x1234 has run and staged 0x1234
C11_Witness ==
    /\ InMode({"DataReg"}) /\ Ea.r = 3
    /\ Finished
    /\ reqs = <<>>
    /\ In0Val = <<0, 4660>>

----------------------------------------------------------------------------
\* the same descriptor, of a register 0..7, was lowered twice in a row
SameTwice(modes) ==
    /\ Len(pending) = 2
    /\ pending[1].mode \in modes
    /\ pending[1].r \in 0..7
    /\ pending[2].mode = pending[1].mode
    /\ pending[1] = pending[2]

\* the second resolution is running or has run
Second == cur = 2 /\ done > 0

\* the body of C12
TwiceHolds ==
    /\ ~Aborted
    /\ SameTwice({"DataReg"}) /\ Second /\ Finished => In0Val = prev.in0
    /\ SameTwice({"Addr"}) /\ Second /\ reqs # <<>> => reqs = prev.reqs
    /\ SameTwice({"PostInc"}) /\ Second /\ reqs # <<>> =>
           /\ Len(prev.reqs) = 1
           /\ reqs = <<wrapping_add(prev.reqs[1], <<0, value(Ea.s)>>)>>
    /\ SameTwice({"PreDec"}) /\ Second /\ reqs # <<>> =>
           /\ Len(prev.reqs) = 1
           /\ reqs = <<wrapping_add(prev.reqs[1], Minus(value(Ea.s)))>>

(* C12: resolving the same data-register-direct descriptor twice stages the
   same value both times and resolving the same address-register-indirect
   descriptor twice requests the same fetch address both times; resolving
   the same post-increment or pre-decrement descriptor twice does not: both
   resolutions run, each changes the address register, and the second fetch
   address is the first plus (post-increment) or minus (pre-decrement) the
   operand's byte size, mod 2^32. *)
C12_Twice ==
    SameTwice({"DataReg", "Addr", "PostInc", "PreDec"}) => TwiceHolds

(* C12 in a build without overflow checks. *)
C12_TwiceUnchecked ==
    (~overflow_checks /\ SameTwice({"DataReg", "Addr", "PostInc", "PreDec"}))
        => TwiceHolds

\* PreDec resolved twice in a build without overflow checks: two fetches
C12_UncheckedWitness ==
    /\ ~overflow_checks
    /\ SameTwice({"PreDec"}) /\ Second /\ Finished
    /\ reqs # prev.reqs

----------------------------------------------------------------------------
\* what In0, In1 and IOBuffer may hold when a program begins
Leftovers ==
    { [in0 |-> <<0, 0>>, in1 |-> <<0, 0>>, io |-> <<0, 0>>],
      [in0 |-> <<Half - 1, Half - 1>>, in1 |-> <<0, 4660>>,
       io |-> <<Half \div 2, 1>>] }

\* register file st with its working registers replaced by g
WithLeftovers(st, g) ==
    [st EXCEPT !.intern_r[NB_INTERNAL_REGS]     = g.in0,
               !.intern_r[NB_INTERNAL_REGS + 1] = g.in1,
               !.intern_r[NB_INTERNAL_REGS + 2] = g.io]

\* the micro-ops of the current program the executor has taken up so far
Taken ==
    SubSeq(lowered(Ea), 1, IF Aborted THEN done + 1 ELSE done)

\* the descriptor's index operand, if it has one, is a data or address register
IndexIsRegister(ea) ==
    ea.mode \in {"AddrIdx", "AddrIndPostIdx", "AddrIndPreIdx",
                 "PCIndIdx", "PCIndPostIdx", "PCIndPreIdx"}
        => ea.idx.tag \in {"D", "A"}

\* a machine that began the current program with working registers g and
\* got the same responses is where this machine is
SameAsWith(g) ==
    LET other == run(WithLeftovers(start, g), overflow_checks, Taken,
                     resps, <<>>)
    IN  /\ other.reqs = reqs
        /\ other.aborted = Aborted
        /\ other.regs.data_r = data_r
        /\ other.regs.addr_r = addr_r
        /\ other.regs.pc = pc
        /\ (Finished => other.regs.intern_r[NB_INTERNAL_REGS] = In0Val)

\* the micro-ops of the descriptors ps, in load order
RECURSIVE Programs(_)
Programs(ps) ==
    IF ps = <<>> THEN <<>> ELSE lowered(Head(ps)) \o Programs(Tail(ps))

\* how many of them the executor has taken from the queue
Consumed ==
    Len(Programs(SubSeq(pending, 1, cur - 1))) + Len(Taken)

(* C13: the micro-ops queued depend on the descriptors alone, whatever the
   registers hold; and a program leaks no working-register state: a machine
   that agrees on the descriptor (index operand a data or address
   register), the data and address registers, PC and the memory responses
   but begins with other In0, In1 and IOBuffer issues the same fetch
   addresses and reaches the same data registers, address registers, PC
   and final In0. *)
C13_NoLeak ==
    /\ Loaded =>
          instrs = SubSeq(Programs(pending), Consumed + 1,
                          Len(Programs(pending)))
    /\ Ended /\ IndexIsRegister(Ea) => \A g \in Leftovers : SameAsWith(g)

\* the second of two programs has run to its end from working registers the
\* first one left non-zero, and has fetched
C13_Witness ==
    /\ cur = 2 /\ Finished
    /\ InMode({"AddrDisp", "AddrIdx", "PCIndIdx"})
    /\ start.intern_r[NB_INTERNAL_REGS] # <<0, 0>>
    /\ start.intern_r[NB_INTERNAL_REGS + 2] # <<0, 0>>
    /\ Len(reqs) = 1

----------------------------------------------------------------------------
\* the micro-op writes the register it names first
Writes(m) == m.op \in {"Zero", "Set", "Mov", "Add", "Scale"}

(* C14: no micro-op that load_effaddr queues, for any descriptor and any
   index operand (an immediate included), has an Immediate as the register
   it writes: every micro-op the executor takes from the queue leaves the
   unreachable!() arm of write_reg unreached. *)
C14_NoImmediateWrite ==
    \A i \in 1..Len(instrs) :
        Writes(instrs[i]) => instrs[i].r.tag # "Immediate"

\* a program whose index operand is an immediate has run to its end
C14_Witness ==
    /\ InMode({"AddrIdx", "AddrIndPostIdx", "AddrIndPreIdx",
               "PCIndIdx", "PCIndPostIdx", "PCIndPreIdx"})
    /\ Ea.idx.tag = "Immediate"
    /\ Finished
    /\ intern_r[NB_INTERNAL_REGS + 1] = <<0, 6>>

----------------------------------------------------------------------------
\* every register the micro-op names lies inside its bank
RefsInRange(m) ==
    /\ index_ok(m.r)
    /\ (m.op \in {"Mov", "Add"} => index_ok(m.x))

(* C15: a register index outside 0..7 is rejected when the descriptor is
   built, so no micro-op that names a register outside its bank is ever
   queued and none reaches the array indexing of read_reg or write_reg. *)
C15_IndexInRange ==
    /\ \A i \in 1..Len(pending) :
            pending[i].mode \in {"DataReg", "AddrReg", "Addr", "PostInc",
                                 "PreDec", "AddrDisp", "AddrIdx",
                                 "AddrIndPostIdx", "AddrIndPreIdx"}
                => pending[i].r \in 0..7
    /\ \A i \in 1..Len(instrs) : RefsInRange(instrs[i])

\* the executor took Mov(In0, D(8)) from the queue and read_reg panicked
C15_OutOfRangeRead ==
    /\ InMode({"DataReg"}) /\ Ea.r = 8
    /\ Aborted /\ done = 0

----------------------------------------------------------------------------
\* the low six bits of the opcode are the discriminant of a variant
DefinedMode == (opcode % 64) < Len(AddrModeNames)

(* C16: decode, for every 16-bit opcode, either returns the AddrMode variant
   whose discriminant is the opcode's low six bits or, when those bits are
   no variant's discriminant, reports a decode error; it never returns an
   AddrMode that is none of the variants. *)
C16_DecodeChecked ==
    decoded # NotDecoded =>
        IF DefinedMode
        THEN decoded = AddrMode(opcode % 64)
        ELSE decoded.tag = "DecodeError"

(* C16, the part the code keeps: an opcode whose low six bits are a
   variant's discriminant decodes to that variant. *)
C16_ValidDecoded ==
    decoded # NotDecoded /\ DefinedMode => decoded = AddrMode(opcode % 64)

\* decode(63) returned an AddrMode with discriminant 63, which no variant has
C16_OutsideVariants ==
    /\ opcode = 63
    /\ decoded = AddrMode(63)

----------------------------------------------------------------------------
PcModes == {"PCIndDisp", "PCIndIdx", "PCIndPostIdx", "PCIndPreIdx"}

\* the address register the counterpart descriptor is given as its base
CounterpartReg(ea) == IF ea.mode = "PCIndDisp" THEN 1 ELSE 2

\* the 16-bit pattern of a displacement that fits an i16
AsI16(d) == (d + Half) % Half

\* the address-register-based descriptor with the same fields
Counterpart(ea) ==
    CASE ea.mode = "PCIndDisp" ->
            [mode |-> "AddrDisp", r |-> CounterpartReg(ea), d |-> AsI16(ea.d)]
      [] ea.mode = "PCIndIdx" ->
            [mode |-> "AddrIdx", r |-> CounterpartReg(ea), idx |-> ea.idx,
             d |-> ea.d, s |-> ea.s]
      [] ea.mode = "PCIndPostIdx" ->
            [mode |-> "AddrIndPostIdx", r |-> CounterpartReg(ea), d |-> ea.d,
             idx |-> ea.idx, s |-> ea.s, od |-> ea.od]
      [] ea.mode = "PCIndPreIdx" ->
            [mode |-> "AddrIndPreIdx", r |-> CounterpartReg(ea), d |-> ea.d,
             idx |-> ea.idx, s |-> ea.s, od |-> ea.od]

\* micro-op m with every reference to register a replaced by PC
Rebased(m, a) ==
    LET r2 == IF m.r = a THEN PC ELSE m.r
    IN  IF m.op \in {"Mov", "Add"}
        THEN [m EXCEPT !.r = r2, !.x = IF m.x = a THEN PC ELSE m.x]
        ELSE [m EXCEPT !.r = r2]

\* the counterpart's program run beside the current one: from the same
\* register file but with the counterpart's base register equal to PC, as
\* many micro-ops taken, the same responses
BesideCounterpart ==
    LET other == Counterpart(Ea)
        r     == CounterpartReg(Ea)
    IN  run([start EXCEPT !.addr_r[r] = start.pc], overflow_checks,
            SubSeq(lowered(other), 1, Len(Taken)), resps, <<>>)

(* C17: each PC-relative mode queues the micro-ops of its
   address-register-based counterpart with the base register A(r) replaced
   by PC; run beside the counterpart with A[r] equal to PC and the same
   displacement, index, size, outer displacement and memory responses, it
   issues the same fetch addresses and ends with the same In0; and it
   leaves PC unchanged. *)
C17_PcAsBase ==
    InMode(PcModes) =>
        /\ lowered(Ea) =
              [i \in 1..Len(lowered(Counterpart(Ea))) |->
                  Rebased(lowered(Counterpart(Ea))[i], A(CounterpartReg(Ea)))]
        /\ pc = start.pc
        /\ Ended =>
              /\ BesideCounterpart.reqs = reqs
              /\ BesideCounterpart.aborted = Aborted
              /\ BesideCounterpart.regs.intern_r[NB_INTERNAL_REGS] = In0Val

\* a PC-relative memory-indirect program has run to its end with two fetches
C17_Witness ==
    /\ InMode({"PCIndPostIdx", "PCIndPreIdx"})
    /\ Finished
    /\ Len(reqs) = 2
    /\ reqs[1] = wrapping_add(start.pc, i32_as_u32(Ea.d))

----------------------------------------------------------------------------
\* v doubled k times, mod 2^32
RECURSIVE Doubled(_, _)
Doubled(v, k) == IF k = 0 THEN v ELSE Doubled(wrapping_add(v, v), k - 1)

\* the shift the sizes stand for
ShiftOf(s) == CASE s = "Byte" -> 0 [] s = "Word" -> 1 [] s = "Long" -> 2

In1Val == intern_r[NB_INTERNAL_REGS + 1]

(* C18: applying Scale(r, size) to a register holding v leaves it holding
   (v * 2^k) mod 2^32 with k = 0, 1, 2 for Byte, Word, Long, changes no other
   register and does not suspend (the lowered programs scale In1). *)
C18_Scale ==
    [][ Applying /\ Head(instrs).op = "Scale" =>
            /\ Head(instrs).r = In1
            /\ intern_r' =
                  [intern_r EXCEPT ![NB_INTERNAL_REGS + 1] =
                      Doubled(In1Val, ShiftOf(Head(instrs).s))]
            /\ UNCHANGED <<data_r, addr_r, pc, ccr>>
            /\ status' = "Ready" ]_vars

\* index value 3 scaled by Long: In1 holds 12 once the Scale has been applied
C18_Witness ==
    /\ InMode({"AddrIdx"}) /\ Ea.s = "Long"
    /\ read_reg(start, Ea.idx) = <<0, 3>>
    /\ done = 4
    /\ In1Val = <<0, 12>>

\* 0x80000000 scaled by Long wraps to 0
C18_WitnessWraps ==
    /\ InMode({"AddrIdx"}) /\ Ea.s = "Long"
    /\ read_reg(start, Ea.idx) = <<Half \div 2, 0>>
    /\ done = 4
    /\ In1Val = <<0, 0>>

----------------------------------------------------------------------------
Idle == instrs = <<>> /\ status = "Ready"

(* C19: the executor is stalled only while a memory request is unanswered:
   as long as micro-ops are queued it is either ready to pop the next one
   or suspended on a request, so a queue whose requests are all answered
   drains to Idle. *)
C19_StalledOnlyOnRequest ==
    /\ status \in {"Ready", "Suspended"}
    /\ (instrs # <<>> /\ status # "Suspended" => ENABLED Step)

(* C19, the queue discipline: applying a micro-op pops the front of the
   queue and appends nothing, a resume leaves the queue alone, and lowering
   only appends. *)
C19_PopsInOrder ==
    [][ \/ instrs' = instrs
        \/ instrs # <<>> /\ status = "Ready" /\ instrs' = Tail(instrs)
        \/ /\ Len(pending') = Len(pending) + 1
           /\ instrs' = instrs \o lowered(pending'[Len(pending')]) ]_vars

(* C19 in a build without overflow checks: if the executor keeps popping
   and every request is answered, the queue drains and the executor stays
   Idle. *)
C19_DrainsUnchecked == (~overflow_checks) => <>[]Idle

\* the executor has stopped on a panic with micro-ops still queued
C19_StuckWitness == Aborted /\ instrs # <<>>

----------------------------------------------------------------------------
\* the modes whose descriptor names an address or data register by number
WithRegister ==
    {"DataReg", "AddrReg", "Addr", "PostInc", "PreDec", "AddrDisp",
     "AddrIdx", "AddrIndPostIdx", "AddrIndPreIdx"}

\* the descriptor's register numbers are numbers of registers
IndicesInRange(ea) ==
    /\ (ea.mode \in WithRegister => ea.r \in 0..7)
    /\ (ea.mode \in {"AddrIdx", "AddrIndPostIdx", "AddrIndPreIdx",
                      "PCIndIdx", "PCIndPostIdx", "PCIndPreIdx"}
            => index_ok(ea.idx))

(* C20: for a descriptor with register indices in 0..7, at every point of
   its program every data register, PC, CCR and the InTmp bank are as they
   were when the program began, and so is every address register except
   A[r] of a post-increment or pre-decrement descriptor: only In0, In1 and
   IOBuffer change besides. *)
C20_Frame ==
    Loaded /\ IndicesInRange(Ea) =>
        /\ data_r = start.data_r
        /\ pc = start.pc
        /\ ccr = start.ccr
        /\ \A n \in 0..(NB_INTERNAL_REGS - 1) : intern_r[n] = start.intern_r[n]
        /\ \A n \in 0..7 :
              addr_r[n] # start.addr_r[n]
                  => Ea.mode \in {"PostInc", "PreDec"} /\ n = Ea.r

\* a post-increment program has run to its end: A[r], In0 and IOBuffer changed
C20_Witness ==
    /\ InMode({"PostInc"}) /\ Finished
    /\ addr_r[Ea.r] # start.addr_r[Ea.r]
    /\ In0Val # start.intern_r[NB_INTERNAL_REGS]
    /\ intern_r[NB_INTERNAL_REGS + 2] # start.intern_r[NB_INTERNAL_REGS + 2]

============================================================================
